---- MODULE Spec2Model ----
(***************************************************************************)
(* Model of cleanupads.py: the cleanup pipeline around the three remote    *)
(* calls of the discovery client (paginated list_configurations,           *)
(* batch_delete_agents, start_batch_delete_configuration_task).            *)
(*                                                                         *)
(* Text is modelled structurally: a line typed by the user is a sequence   *)
(* of characters (so that str.lower() is computed character by character), *)
(* an exception message is a sequence of text tokens in which the token    *)
(* "\n" is a line break (so that f-strings and '\n'.join are computed by   *)
(* concatenation).  A dict is a function whose DOMAIN is its key set, so   *)
(* a missing key is a key outside the DOMAIN.                              *)
(***************************************************************************)
EXTENDS Integers, Sequences, FiniteSets, TLC

\* ---------------------------------------------------------------- bounds
MaxPages == 2
MaxRecords == 3
MaxErrors == 2

\* ------------------------------------------------------- generic helpers
RECURSIVE SeqsUpTo(_, _)
SeqsUpTo(S, n) ==
    IF n = 0 THEN {<<>>}
    ELSE LET shorter == SeqsUpTo(S, n - 1)
         IN  shorter \cup {Append(s, x) : s \in {t \in shorter : Len(t) = n - 1}, x \in S}

\* ------------------------------------------------------ python constants
None == "<None>"
Running == 0 - 1
NL == "\n"

\* ------------------------------------------------- inputs (environment)
AppNames == {None, "", "web01"}
TagKeys == {None, "", "env"}
TagValues == {None, "", "prod"}

K_AGENT == "server.agentId"
K_CONFIG == "server.configurationId"

\* Configuration records as the remote returns them: dicts that may or may
\* not carry the two fields the program reads.
ConfigurationRecords ==
    { (K_AGENT :> "a1") @@ (K_CONFIG :> "c1"),
      (K_AGENT :> "a2") @@ (K_CONFIG :> "c2"),
      (K_CONFIG :> "c3"),
      (K_AGENT :> "a4") }

\* A page of the paginator: a dict with or without the 'configurations' key.
PageWithout == [other |-> <<>>]
Pages == {PageWithout} \cup {[configurations |-> s] : s \in SeqsUpTo(ConfigurationRecords, MaxRecords)}

\* Per-agent errors of a batch_delete_agents response.
AgentErrors ==
    { [agentId |-> "a1", errorMessage |-> <<"busy">>],
      [agentId |-> "a2", errorMessage |-> <<"in", NL, "use">>],
      [errorMessage |-> <<"unknown">>] }

ResponseWithout == [ResponseMetadata |-> <<>>]
Responses == {ResponseWithout} \cup {[errors |-> s] : s \in SeqsUpTo(AgentErrors, MaxErrors)}

\* Messages of the exceptions the client library raises.
RemoteErrors == { <<"AccessDeniedException">> }

\* Lines the user can type at the prompt, character by character.
Lines ==
    { <<"c","l","e","a","n","u","p">>,
      <<"C","L","E","A","N","U","P">>,
      <<"C","l","e","a","n","U","p">>,
      <<"c","l","e","a","n","u","p"," ">>,
      <<"y","e","s">>,
      <<>> }

\* ------------------------------------------------------------ the state
VARIABLES
    args,               \* argparse namespace: app_name, tag_key, tag_value, force, unattended
    pc,                 \* position of main
    calls,              \* remote calls issued so far, in order
    listed,             \* list_configurations' local list `configurations`
    pages,              \* pages consumed from the paginator
    configurations,     \* main's `configurations`: None or the returned list
    agent_ids,          \* main's agent_ids
    configuration_ids,  \* main's configuration_ids
    prompts,            \* number of input() reads
    confirmation,       \* the line read by input()
    errors,             \* response.get('errors', []) of batch_delete_agents
    errMsg,             \* message of the exception main caught
    failure,            \* what raised the exception main caught
    exitStatus          \* process exit status, Running until the process ends

vars == <<args, pc, calls, listed, pages, configurations, agent_ids,
          configuration_ids, prompts, confirmation, errors, errMsg, failure, exitStatus>>

NoneValue == [none |-> TRUE, items |-> <<>>]
Some(s) == [none |-> FALSE, items |-> s]

Init ==
    /\ args \in [app_name : AppNames, tag_key : TagKeys, tag_value : TagValues,
                 force : BOOLEAN, unattended : BOOLEAN]
    /\ pc = "main"
    /\ calls = <<>>
    /\ listed = <<>>
    /\ pages = 0
    /\ configurations = NoneValue
    /\ agent_ids = <<>>
    /\ configuration_ids = <<>>
    /\ prompts = 0
    /\ confirmation = <<>>
    /\ errors = <<>>
    /\ errMsg = <<>>
    /\ failure = "none"
    /\ exitStatus = Running

\* ------------------------------------------------------- pure functions
\* len(sys.argv) for the command line that parses to `a`: the program name,
\* two words per valued option given and one per switch given.
ArgvLen(a) ==
    1 + (IF a.app_name # None THEN 2 ELSE 0)
      + (IF a.tag_key # None THEN 2 ELSE 0)
      + (IF a.tag_value # None THEN 2 ELSE 0)
      + (IF a.force THEN 1 ELSE 0)
      + (IF a.unattended THEN 1 ELSE 0)

filter_params(a) ==
    << <<a.app_name, "server.application.name">>,
       <<a.tag_key, "server.tag.key">>,
       <<a.tag_value, "server.tag.value">> >>

\* variant: `if param:` (truthiness instead of the None test)
IsTruthy(param) == param # None /\ param # ""

\* `param is not None`
IsNotNone(param) == param # None

RECURSIVE BuildFilters(_)
BuildFilters(params) ==
    IF params = <<>> THEN <<>>
    ELSE LET param == Head(params)[1]
             filter_name == Head(params)[2]
         IN  (IF IsNotNone(param)
              THEN << [name |-> filter_name, values |-> <<param>>, condition |-> "EQ"] >>
              ELSE <<>>) \o BuildFilters(Tail(params))

\* page.get('configurations', [])
PageGet(page) == IF "configurations" \in DOMAIN page THEN page.configurations ELSE <<>>

\* response.get('errors', [])
ResponseErrors(response) == IF "errors" \in DOMAIN response THEN response.errors ELSE <<>>

\* str.lower(), restricted to the characters of the prompt's alphabet.
LowerChar(c) ==
    CASE c = "C" -> "c" [] c = "L" -> "l" [] c = "E" -> "e" [] c = "A" -> "a"
      [] c = "N" -> "n" [] c = "U" -> "u" [] c = "P" -> "p" [] c = "Y" -> "y"
      [] c = "S" -> "s" [] OTHER -> c

Lower(line) == [i \in 1..Len(line) |-> LowerChar(line[i])]

CLEANUP == <<"c","l","e","a","n","u","p">>

\* variant: the comparison with 'cleanup' dropped
AlwaysConfirmed(line) == TRUE

\* not (confirmation.lower() != 'cleanup')
Confirmed(line) == Lower(line) = CLEANUP

\* str(KeyError(key))
KeyErrorText(key) == << "'", key, "'" >>

\* First key of `keys` (in evaluation order) that record `d` lacks, or None.
RECURSIVE MissingKey(_, _)
MissingKey(d, keys) ==
    IF keys = <<>> THEN None
    ELSE IF Head(keys) \notin DOMAIN d THEN Head(keys)
    ELSE MissingKey(d, Tail(keys))

\* First key a comprehension/loop over `ds` fails on, reading `keys` of each
\* element in order; None when every element has them all.
RECURSIVE FirstMissing(_, _)
FirstMissing(ds, keys) ==
    IF ds = <<>> THEN None
    ELSE IF MissingKey(Head(ds), keys) # None THEN MissingKey(Head(ds), keys)
    ELSE FirstMissing(Tail(ds), keys)

\* variant: `server.get(key)`, which never raises
NoKeyError(servers, key) == None

\* The key whose subscript `server[key]` raises KeyError in the list
\* comprehension over `servers`, or None when none does.
KeyErrorIn(servers, key) == FirstMissing(servers, <<key>>)

\* d[key] once FirstMissing has decided that no KeyError is raised
Get(d, key) == IF key \in DOMAIN d THEN d[key] ELSE None

\* variant: the records read in reverse order
ReversedField(servers, key) == [i \in 1..Len(servers) |-> Get(servers[Len(servers) + 1 - i], key)]

\* [server[key] for server in servers]
Field(servers, key) == [i \in 1..Len(servers) |-> Get(servers[i], key)]

\* [{'agentId': agent_id, 'force': self.force} for agent_id in agent_ids]
AgentsToDelete(ids, f) == [i \in 1..Len(ids) |-> [agentId |-> ids[i], force |-> f]]

\* f"Agent {error['agentId']}: {error['errorMessage']}"
AgentErrorLine(error) == <<"Agent ", error.agentId, ": ">> \o error.errorMessage

RECURSIVE Join(_, _)
\* sep.join(parts)
Join(sep, parts) ==
    IF parts = <<>> THEN <<>>
    ELSE IF Len(parts) = 1 THEN parts[1]
    ELSE parts[1] \o <<sep>> \o Join(sep, Tail(parts))

\* variant: only the first error reported
FirstErrorOnly(es) == AgentErrorLine(es[1])

\* '\n'.join(error_messages) over all errors of the response
ErrorMessages(es) == Join(NL, [i \in 1..Len(es) |-> AgentErrorLine(es[i])])

ListPrefix == <<"Error listing configurations: ">>
AgentsPrefix == <<"Error deleting agents: ">>
ConfigsPrefix == <<"Error deleting configurations: ">>

\* -------------------------------------------------------- control flow
\* variant: the no-flags check dropped
NeverNoFlags(a) == FALSE

\* len(sys.argv) == 1
NoFlags(a) == ArgvLen(a) = 1

\* variant: the empty result not told apart
NeverEmpty(cs) == FALSE

\* `if not configurations`
IsEmpty(cs) == cs = <<>>

\* variant: the unattended flag ignored
AlwaysAsk(a) == TRUE

\* `if not self.unattended`
NeedsConfirmation(a) == ~a.unattended

\* variant: the response's errors not inspected
ErrorsIgnored(es) == FALSE

\* `if errors`
HasErrors(es) == es # <<>>

\* sys.exit(1) after the usage hint
ExitNoFlags == 1
\* sys.exit(0) when the user declines
ExitCancelled == 0
\* sys.exit(1) in main's `except Exception`
ExitOnException == 1
\* main returning normally
ExitNormal == 0

\* variant: delete_agents logs its exception instead of re-raising
AgentsHandlerSwallows(method) ==
    IF method = "delete_agents" THEN "delete_configurations" ELSE "exited"

\* Where control goes when the named method raises: no method's handler
\* swallows, each re-raises, and main's handler ends the process.
AfterException(method) == "exited"

\* main's `except Exception as e`: log e, sys.exit(1)
Caught(what, message) ==
    /\ failure' = what
    /\ errMsg' = message
    /\ pc' = "exited"
    /\ exitStatus' = ExitOnException

Exit(status) ==
    /\ pc' = "exited"
    /\ exitStatus' = status
    /\ UNCHANGED <<failure, errMsg>>

Continue(next) ==
    /\ pc' = next
    /\ UNCHANGED <<failure, errMsg, exitStatus>>

\* An exception raised inside `method` with the wrapped text `message`.
Raised(method, what, message) ==
    IF AfterException(method) = "exited"
    THEN Caught(what, message)
    ELSE /\ failure' = what
         /\ errMsg' = message
         /\ pc' = AfterException(method)
         /\ UNCHANGED exitStatus

ListCall(a) ==
    [op |-> "list_configurations", configurationType |-> "SERVER",
     arg |-> BuildFilters(filter_params(a))]

DeleteAgentsCall(ids, f) ==
    [op |-> "batch_delete_agents", configurationType |-> "",
     arg |-> AgentsToDelete(ids, f)]

DeleteConfigurationsCall(ids) ==
    [op |-> "start_batch_delete_configuration_task", configurationType |-> "SERVER",
     arg |-> ids]

\* --------------------------------------------------------------- actions
\* main, no flags on the command line: usage hint and sys.exit(1).
Main_NoFlags ==
    /\ pc = "main"
    /\ NoFlags(args)
    /\ Exit(ExitNoFlags)
    /\ UNCHANGED <<args, calls, listed, pages, configurations, agent_ids,
                   configuration_ids, prompts, confirmation, errors>>

\* main constructs ADS and calls list_configurations, which builds the
\* filters and starts the one paginated call.
Main_ListConfigurations ==
    /\ pc = "main"
    /\ ~NoFlags(args)
    /\ calls' = Append(calls, ListCall(args))
    /\ Continue("paginate")
    /\ UNCHANGED <<args, listed, pages, configurations, agent_ids,
                   configuration_ids, prompts, confirmation, errors>>

\* The paginator yields one more page.
Paginate_Page ==
    /\ pc = "paginate"
    /\ pages < MaxPages
    /\ \E page \in Pages :
          /\ Len(listed) + Len(PageGet(page)) <= MaxRecords
          /\ listed' = listed \o PageGet(page)
    /\ pages' = pages + 1
    /\ Continue("paginate")
    /\ UNCHANGED <<args, calls, configurations, agent_ids, configuration_ids,
                   prompts, confirmation, errors>>

\* The paginated call raises (before the first page or between pages).
Paginate_Raise ==
    /\ pc = "paginate"
    /\ \E e \in RemoteErrors :
          Raised("list_configurations", "list_configurations", ListPrefix \o e)
    /\ UNCHANGED <<args, calls, listed, pages, configurations, agent_ids,
                   configuration_ids, prompts, confirmation, errors>>

\* Pagination is exhausted with nothing found: warning, return None, and
\* main, finding None, returns.
List_Empty ==
    /\ pc = "paginate"
    /\ IsEmpty(listed)
    /\ configurations' = NoneValue
    /\ Exit(ExitNormal)
    /\ UNCHANGED <<args, calls, listed, pages, agent_ids, configuration_ids,
                   prompts, confirmation, errors>>

\* Pagination is exhausted, something was found, no confirmation is asked.
List_Unattended ==
    /\ pc = "paginate"
    /\ ~IsEmpty(listed)
    /\ ~NeedsConfirmation(args)
    /\ configurations' = Some(listed)
    /\ Continue("extract")
    /\ UNCHANGED <<args, calls, listed, pages, agent_ids, configuration_ids,
                   prompts, confirmation, errors>>

\* Pagination is exhausted, something was found, the user is asked and
\* types a line.
List_Confirm ==
    /\ pc = "paginate"
    /\ ~IsEmpty(listed)
    /\ NeedsConfirmation(args)
    /\ prompts' = prompts + 1
    /\ \E line \in Lines :
          /\ confirmation' = line
          /\ IF Confirmed(line)
             THEN configurations' = Some(listed) /\ Continue("extract")
             ELSE configurations' = configurations /\ Exit(ExitCancelled)
    /\ UNCHANGED <<args, calls, listed, pages, agent_ids, configuration_ids, errors>>

\* The user is asked and standard input is at end of file: input() raises
\* EOFError, an Exception, which list_configurations wraps.
List_InputEOF ==
    /\ pc = "paginate"
    /\ ~IsEmpty(listed)
    /\ NeedsConfirmation(args)
    /\ prompts' = prompts + 1
    /\ Raised("list_configurations", "input",
              ListPrefix \o <<"EOF when reading a line">>)
    /\ UNCHANGED <<args, calls, listed, pages, configurations, agent_ids,
                   configuration_ids, confirmation, errors>>

\* main builds agent_ids, then configuration_ids, before any delete call.
Main_Extract ==
    /\ pc = "extract"
    /\ LET servers == configurations.items
           missingAgent == KeyErrorIn(servers, K_AGENT)
           missingConfig == KeyErrorIn(servers, K_CONFIG)
       IN  IF missingAgent # None
           THEN /\ Caught("KeyError", KeyErrorText(missingAgent))
                /\ UNCHANGED <<agent_ids, configuration_ids>>
           ELSE IF missingConfig # None
           THEN /\ Caught("KeyError", KeyErrorText(missingConfig))
                /\ agent_ids' = Field(servers, K_AGENT)
                /\ UNCHANGED configuration_ids
           ELSE /\ agent_ids' = Field(servers, K_AGENT)
                /\ configuration_ids' = Field(servers, K_CONFIG)
                /\ Continue("delete_agents")
    /\ UNCHANGED <<args, calls, listed, pages, configurations, prompts,
                   confirmation, errors>>

\* delete_agents: the one batch_delete_agents call raises.
DeleteAgents_Raise ==
    /\ pc = "delete_agents"
    /\ calls' = Append(calls, DeleteAgentsCall(agent_ids, args.force))
    /\ \E e \in RemoteErrors :
          Raised("delete_agents", "batch_delete_agents", AgentsPrefix \o e)
    /\ UNCHANGED <<args, listed, pages, configurations, agent_ids,
                   configuration_ids, prompts, confirmation, errors>>

\* delete_agents: the call returns a response, whose errors are inspected.
DeleteAgents_Response ==
    /\ pc = "delete_agents"
    /\ calls' = Append(calls, DeleteAgentsCall(agent_ids, args.force))
    /\ \E response \in Responses :
          LET es == ResponseErrors(response)
              missing == FirstMissing(es, <<"agentId", "errorMessage">>)
          IN  /\ errors' = es
              /\ IF HasErrors(es)
                 THEN IF missing # None
                      THEN Raised("delete_agents", "agent_errors",
                                  AgentsPrefix \o KeyErrorText(missing))
                      ELSE Raised("delete_agents", "agent_errors",
                                  AgentsPrefix \o ErrorMessages(es))
                 ELSE Continue("delete_configurations")
    /\ UNCHANGED <<args, listed, pages, configurations, agent_ids,
                   configuration_ids, prompts, confirmation>>

\* delete_configurations: the call returns; main returns normally.
DeleteConfigurations_Ok ==
    /\ pc = "delete_configurations"
    /\ calls' = Append(calls, DeleteConfigurationsCall(configuration_ids))
    /\ Exit(ExitNormal)
    /\ UNCHANGED <<args, listed, pages, configurations, agent_ids,
                   configuration_ids, prompts, confirmation, errors>>

\* delete_configurations: the call raises.
DeleteConfigurations_Raise ==
    /\ pc = "delete_configurations"
    /\ calls' = Append(calls, DeleteConfigurationsCall(configuration_ids))
    /\ \E e \in RemoteErrors :
          Raised("delete_configurations", "start_batch_delete_configuration_task",
                 ConfigsPrefix \o e)
    /\ UNCHANGED <<args, listed, pages, configurations, agent_ids,
                   configuration_ids, prompts, confirmation, errors>>

Next ==
    \/ Main_NoFlags
    \/ Main_ListConfigurations
    \/ Paginate_Page
    \/ Paginate_Raise
    \/ List_Empty
    \/ List_Unattended
    \/ List_Confirm
    \/ List_InputEOF
    \/ Main_Extract
    \/ DeleteAgents_Raise
    \/ DeleteAgents_Response
    \/ DeleteConfigurations_Ok
    \/ DeleteConfigurations_Raise

Spec == Init /\ [][Next]_vars

TypeOK ==
    /\ pc \in {"main", "paginate", "extract", "delete_agents", "delete_configurations", "exited"}
    /\ exitStatus \in {Running, 0, 1}
    /\ (pc = "exited") = (exitStatus # Running)
    /\ prompts \in 0..1
    /\ Len(listed) <= MaxRecords

\* ------------------------------------------------- vocabulary of claims
ListOp == "list_configurations"
AgentsOp == "batch_delete_agents"
ConfigsOp == "start_batch_delete_configuration_task"
RemoteOps == {ListOp, AgentsOp, ConfigsOp}

Ops == [i \in 1..Len(calls) |-> calls[i].op]
Called(op) == \E i \in 1..Len(calls) : calls[i].op = op
NoDeleteCall == ~Called(AgentsOp) /\ ~Called(ConfigsOp)
Exited(status) == pc = "exited" /\ exitStatus = status

\* The list call returned (did not raise) and its pages have been consumed.
ListReturned == pc \notin {"main", "paginate"} /\ Called(ListOp) /\ failure # ListOp
\* list_configurations returned the list to main: records found, gate passed.
GatePassed == ~configurations.none
HasBothFields(server) == K_AGENT \in DOMAIN server /\ K_CONFIG \in DOMAIN server
AllHaveBothFields == \A i \in 1..Len(listed) : HasBothFields(listed[i])
\* A line was read from the user (input() returned).
LineEntered == prompts = 1 /\ failure # "input"

\* text.split('\n') on token sequences
RECURSIVE SplitLines(_)
SplitLines(text) ==
    IF \A i \in 1..Len(text) : text[i] # NL THEN <<text>>
    ELSE LET k == CHOOSE i \in 1..Len(text) :
                     text[i] = NL /\ \A j \in 1..(i - 1) : text[j] # NL
         IN  <<SubSeq(text, 1, k - 1)>> \o SplitLines(SubSeq(text, k + 1, Len(text)))

\* C1: when records were found, unattended is false and the line the user
\* entered differs from 'cleanup' after lower-casing, the process has exited
\* with status 0 and no delete call was ever issued.
C1_DeclinedExitsZeroWithoutDelete ==
    (/\ Len(listed) >= 1
     /\ ~args.unattended
     /\ LineEntered
     /\ Lower(confirmation) # <<"c","l","e","a","n","u","p">>)
    => (Exited(0) /\ NoDeleteCall)

C1_Witness ==
    /\ Len(listed) >= 1 /\ ~args.unattended /\ LineEntered
    /\ confirmation = <<"c","l","e","a","n","u","p"," ">>
    /\ Exited(0)

\* C2: when the batch_delete_agents response carried per-agent errors,
\* delete_agents failed, the configuration delete call was never issued and
\* the process ended with status 1.
C2_AgentErrorsAbortWithStatusOne ==
    (Called(AgentsOp) /\ errors # <<>>)
    => (failure = "agent_errors" /\ Exited(1) /\ ~Called(ConfigsOp))

C2_Witness ==
    /\ Called(AgentsOp) /\ Len(errors) = 2 /\ Exited(1)

ErrorCarriesFields(e) == "agentId" \in DOMAIN e /\ "errorMessage" \in DOMAIN e
ErrorsCarryFields == \A i \in 1..Len(errors) : ErrorCarriesFields(errors[i])
ExpectedLine(i) == <<"Agent ", errors[i].agentId, ": ">> \o errors[i].errorMessage
NoLineBreakInMessages ==
    \A i \in 1..Len(errors) : \A j \in 1..Len(errors[i].errorMessage) :
        errors[i].errorMessage[j] # NL
RECURSIVE ExpectedBody(_)
ExpectedBody(i) ==
    IF i = Len(errors) THEN ExpectedLine(i)
    ELSE ExpectedLine(i) \o <<NL>> \o ExpectedBody(i + 1)

\* C3 as stated: with k >= 1 per-agent errors the message of the failure
\* delete_agents raises has exactly k lines, the i-th being
\* "Agent <id>: <message>" of the i-th error.
C3_Original ==
    (failure = "agent_errors" /\ ErrorsCarryFields)
    => SplitLines(errMsg) = [i \in 1..Len(errors) |-> ExpectedLine(i)]

\* C3 amended: with k >= 1 per-agent errors, each carrying an agentId and an
\* errorMessage, the message of the failure delete_agents raises is the
\* text "Error deleting agents: " followed by the k entries
\* "Agent <id>: <message>", in response order, joined by line breaks; when no
\* message contains a line break these are exactly k lines, the first one
\* carrying the prefix.
C3_PrefixedAggregate ==
    (failure = "agent_errors" /\ ErrorsCarryFields)
    => /\ Len(errors) >= 1
       /\ errMsg = <<"Error deleting agents: ">> \o ExpectedBody(1)
       /\ NoLineBreakInMessages =>
             /\ Len(SplitLines(errMsg)) = Len(errors)
             /\ \A i \in 1..Len(errors) :
                   SplitLines(errMsg)[i] =
                       (IF i = 1 THEN <<"Error deleting agents: ">> ELSE <<>>)
                           \o ExpectedLine(i)

C3_Witness ==
    /\ failure = "agent_errors" /\ ErrorsCarryFields
    /\ Len(errors) = 2 /\ errors[1] # errors[2]
    /\ Exited(1)

\* What the claims expect the delete calls to carry, read off the records.
ExpectedAgents ==
    [i \in 1..Len(listed) |-> [agentId |-> Get(listed[i], K_AGENT), force |-> args.force]]
ExpectedAgentIds == [i \in 1..Len(listed) |-> Get(listed[i], K_AGENT)]
ExpectedConfigurationIds == [i \in 1..Len(listed) |-> Get(listed[i], K_CONFIG)]
ListCalls == {i \in 1..Len(calls) : calls[i].op = ListOp}
AgentsCalledWithAll ==
    \E i \in 1..Len(calls) :
        /\ calls[i].op = AgentsOp
        /\ Len(calls[i].arg) = Len(listed)
        /\ calls[i].arg = ExpectedAgents
        /\ agent_ids = ExpectedAgentIds
ConfigurationsCalledWithAll ==
    \E i \in 1..Len(calls) :
        /\ calls[i].op = ConfigsOp
        /\ Len(calls[i].arg) = Len(listed)
        /\ calls[i].arg = ExpectedConfigurationIds
        /\ configuration_ids = ExpectedConfigurationIds
DeleteAgentsSucceeded ==
    Called(AgentsOp) /\ failure \notin {AgentsOp, "agent_errors"}
\* The delete calls, when issued, carry the identifiers of all N records of
\* the one result set, position by position.
DeletesArePositional ==
    /\ Cardinality(ListCalls) <= 1
    /\ Called(AgentsOp) => (Len(listed) >= 1 /\ AgentsCalledWithAll)
    /\ Called(ConfigsOp) => (Len(listed) >= 1 /\ ConfigurationsCalledWithAll)

\* C4 as stated: once a run with N >= 1 records and a passed gate has ended,
\* delete_agents was invoked with the N agent ids and, when it succeeded,
\* delete_configurations with the N configuration ids, position by position,
\* after a single list call.
C4_Original ==
    (pc = "exited" /\ GatePassed)
    => /\ DeletesArePositional
       /\ AgentsCalledWithAll
       /\ DeleteAgentsSucceeded => ConfigurationsCalledWithAll

\* C4 amended: given N >= 1 records each of which carries both
\* server.agentId and server.configurationId, and a passed gate, delete_agents
\* is invoked with the N agent ids and, when it succeeds, delete_configurations
\* with the N configuration ids, the i-th of each being that of the i-th
\* record; the list call is issued once and never repeated.
C4_PositionalWhenFieldsPresent ==
    /\ DeletesArePositional
    /\ (pc = "exited" /\ GatePassed /\ AllHaveBothFields)
       => /\ AgentsCalledWithAll
          /\ DeleteAgentsSucceeded => ConfigurationsCalledWithAll

C4_Witness ==
    /\ Exited(0) /\ GatePassed /\ AllHaveBothFields
    /\ pages = 2 /\ Len(listed) = 2 /\ listed[1] # listed[2]
    /\ Len(calls) = 3 /\ ConfigurationsCalledWithAll

\* C5: when the list call returned zero records, whatever the unattended
\* flag, nothing was read from the user, no delete call was issued and the
\* process ended with status 0.
C5_NothingFoundIsSuccess ==
    (ListReturned /\ listed = <<>>)
    => (prompts = 0 /\ NoDeleteCall /\ Exited(0))

C5_Witness ==
    /\ ListReturned /\ listed = <<>> /\ pages = 2
    /\ ~args.unattended /\ Exited(0)

\* C6: the remote operations are issued at most once each and only in the
\* order list, delete-agents, delete-configurations; when one of them raised,
\* it is the last call issued and the process ended with status 1.
C6_NoRetryFailureAborts ==
    /\ Ops \in { <<>>, <<ListOp>>, <<ListOp, AgentsOp>>, <<ListOp, AgentsOp, ConfigsOp>> }
    /\ failure \in RemoteOps =>
          /\ calls # <<>>
          /\ calls[Len(calls)].op = failure
          /\ Exited(1)

C6_Witness ==
    /\ failure = AgentsOp /\ Ops = <<ListOp, AgentsOp>> /\ Exited(1)

\* C7 as stated: with unattended true no input is read, and once a run whose
\* list call returned at least one record has ended, delete_agents was called.
C7_Original ==
    args.unattended
    => /\ prompts = 0
       /\ (pc = "exited" /\ ListReturned /\ Len(listed) >= 1) => Called(AgentsOp)

\* C7 amended: with unattended true no input is read for any result set
\* size, and whenever the list call returned at least one record, each
\* carrying both server.agentId and server.configurationId, the run proceeds
\* to delete_agents without any user input.
C7_UnattendedSkipsGate ==
    args.unattended
    => /\ prompts = 0
       /\ (ListReturned /\ Len(listed) >= 1) => GatePassed
       /\ (pc = "exited" /\ ListReturned /\ Len(listed) >= 1 /\ AllHaveBothFields)
          => Called(AgentsOp)

C7_Witness ==
    /\ args.unattended /\ prompts = 0 /\ Len(listed) = 3
    /\ Called(AgentsOp) /\ pc = "exited"

\* C8: a run started with no arguments issues no remote call and ends with
\* exit status 1.
C8_NoArgumentsExitOne ==
    (/\ args.app_name = None /\ args.tag_key = None /\ args.tag_value = None
     /\ ~args.force /\ ~args.unattended)
    => /\ calls = <<>>
       /\ pc \in {"main", "exited"}
       /\ pc = "exited" => exitStatus = 1

C8_Witness ==
    /\ args.app_name = None /\ args.tag_key = None /\ args.tag_value = None
    /\ ~args.force /\ ~args.unattended
    /\ Exited(1) /\ calls = <<>>

FilterNames == <<"server.application.name", "server.tag.key", "server.tag.value">>
FilterValues == <<args.app_name, args.tag_key, args.tag_value>>
NameIndex(n) == CHOOSE k \in 1..3 : FilterNames[k] = n

\* C9: the filters of the list call hold exactly one EQ clause per non-null
\* parameter and none for a null one, in the order application name, tag
\* key, tag value, each clause carrying exactly that parameter's value.
C9_OneClausePerParameter ==
    \A c \in 1..Len(calls) : calls[c].op = ListOp =>
        LET filters == calls[c].arg
        IN  /\ calls[c].configurationType = "SERVER"
            /\ Len(filters) = Cardinality({k \in 1..3 : FilterValues[k] # None})
            /\ \A i \in 1..Len(filters) :
                  /\ filters[i].condition = "EQ"
                  /\ \E k \in 1..3 :
                        /\ filters[i].name = FilterNames[k]
                        /\ FilterValues[k] # None
                        /\ filters[i].values = <<FilterValues[k]>>
            /\ \A i, j \in 1..Len(filters) :
                  i < j => NameIndex(filters[i].name) < NameIndex(filters[j].name)

C9_Witness ==
    /\ args.app_name = "" /\ args.tag_key = None /\ args.tag_value = "prod"
    /\ Called(ListOp) /\ Len(calls[1].arg) = 2

\* C10: when a record of a non-empty, confirmed result set lacks
\* server.agentId or server.configurationId, no delete call is issued for any
\* record and the process ends with exit status 1.
C10_MissingFieldDeletesNothing ==
    (GatePassed /\ ~AllHaveBothFields)
    => /\ NoDeleteCall
       /\ pc \in {"extract", "exited"}
       /\ pc = "exited" => (exitStatus = 1 /\ failure = "KeyError")

C10_Witness ==
    /\ GatePassed /\ Len(listed) = 3
    /\ HasBothFields(listed[1]) /\ HasBothFields(listed[2]) /\ ~HasBothFields(listed[3])
    /\ Exited(1) /\ NoDeleteCall
====
